---- MODULE Spec2Model ----
(***************************************************************************)
(* Model of the realworld-patterns MCP server (mcp-server/src/index.ts):   *)
(* the four request handlers (list resources, read resource, list tools,   *)
(* call tool), validateAngularCode, generateTemplate and main; and of the   *)
(* script merge-repos.sh, a program of its own with its own specification. *)
(*                                                                         *)
(* JavaScript strings are TLA+ strings, taken apart with Len, SubSeq and   *)
(* \o, so that every string operation of the source (includes, replace,   *)
(* toLowerCase, slice, charAt, join) is computed character by character.   *)
(* An optional JavaScript value is a sequence: <<>> is undefined and <<s>>  *)
(* is the string s.                                                        *)
(*                                                                         *)
(* Two characters of the source cannot be written in a string of this      *)
(* module: the check-mark and the cross-mark that open the two texts of    *)
(* the validation tool are written OkMark and CrossMark below.             *)
(***************************************************************************)
EXTENDS Integers, Sequences, FiniteSets, TLC

VARIABLES phase, proc, catalog, inbox, req, resp, kept, failedSince, sh

vars == <<phase, proc, catalog, inbox, req, resp, kept, failedSince, sh>>

-----------------------------------------------------------------------------
(* Bounds of the inputs. *)

\* A code string handed to validate-angular-code is made of at most this many fragments.
MaxFrags == 2
\* A generated name handed to generate-angular-template has at most this many characters.
MaxNameLen == 2
\* At most this many requests have arrived and wait to be served.
MaxInbox == 2
\* An edited REPOS array of merge-repos.sh has at most this many entries.
MaxRepos == 2

-----------------------------------------------------------------------------
(* JavaScript string primitives. *)

\* The backquote, which a string of this module cannot hold on its own.
Backtick == SubSeq("`'", 1, 1)

Undefined == <<>>
Str(s) == <<s>>
IsString(v) == Len(v) = 1
ValueOf(v) == v[1]

UpperLetters == "ABCDEFGHIJKLMNOPQRSTUVWXYZ"
LowerLetters == "abcdefghijklmnopqrstuvwxyz"
Digits == "0123456789"

\* The 1-based position of the one-character string c in alphabet, 0 when absent.
PosIn(c, alphabet) ==
    IF \E k \in 1..Len(alphabet) : SubSeq(alphabet, k, k) = c
    THEN CHOOSE k \in 1..Len(alphabet) : SubSeq(alphabet, k, k) = c
    ELSE 0

IsUpper(c) == Len(c) = 1 /\ PosIn(c, UpperLetters) > 0
IsLower(c) == Len(c) = 1 /\ PosIn(c, LowerLetters) > 0
IsDigit(c) == Len(c) = 1 /\ PosIn(c, Digits) > 0
DigitValue(c) == PosIn(c, Digits) - 1

LowerChar(c) ==
    IF IsUpper(c)
    THEN LET k == PosIn(c, UpperLetters) IN SubSeq(LowerLetters, k, k)
    ELSE c

UpperChar(c) ==
    IF IsLower(c)
    THEN LET k == PosIn(c, LowerLetters) IN SubSeq(UpperLetters, k, k)
    ELSE c

\* String.prototype.toLowerCase
RECURSIVE toLowerCase(_)
toLowerCase(s) ==
    IF Len(s) = 0 THEN ""
    ELSE LowerChar(SubSeq(s, 1, 1)) \o toLowerCase(SubSeq(s, 2, Len(s)))

\* String.prototype.toUpperCase
RECURSIVE toUpperCase(_)
toUpperCase(s) ==
    IF Len(s) = 0 THEN ""
    ELSE UpperChar(SubSeq(s, 1, 1)) \o toUpperCase(SubSeq(s, 2, Len(s)))

\* String.prototype.charAt(i), i counted from 0; "" out of range.
charAt(s, i) == IF i >= 0 /\ i < Len(s) THEN SubSeq(s, i + 1, i + 1) ELSE ""

\* String.prototype.slice(start) for start >= 0, counted from 0.
slice(s, start) == IF start >= Len(s) THEN "" ELSE SubSeq(s, start + 1, Len(s))

\* String.prototype.includes(needle)
includes(s, needle) ==
    \E i \in 1..(Len(s) - Len(needle) + 1) :
        SubSeq(s, i, i + Len(needle) - 1) = needle

\* Array.prototype.join(sep) of an array of strings.
RECURSIVE join(_, _)
join(arr, sep) ==
    IF Len(arr) = 0 THEN ""
    ELSE IF Len(arr) = 1 THEN arr[1]
    ELSE arr[1] \o sep \o join(Tail(arr), sep)

-----------------------------------------------------------------------------
(* String.prototype.replace(regexp, replacement string) for the three      *)
(* global regular expressions of the source.                               *)

\* /\{name\}/g and /\{Name\}/g match a fixed text and capture nothing;
\* /([A-Z])/g matches one upper-case letter and captures it.
RE_name == [kind |-> "literal", text |-> "{name}"]
RE_Name == [kind |-> "literal", text |-> "{Name}"]
RE_upper == [kind |-> "upper", text |-> ""]

\* The length of the match of re in s at position i (from 1), 0 when there is none.
MatchLen(re, s, i) ==
    IF re.kind = "literal"
    THEN IF i + Len(re.text) - 1 <= Len(s) /\ SubSeq(s, i, i + Len(re.text) - 1) = re.text
         THEN Len(re.text) ELSE 0
    ELSE IF IsUpper(SubSeq(s, i, i)) THEN 1 ELSE 0

\* The captures of that match.
Captures(re, s, i) ==
    IF re.kind = "literal" THEN <<>> ELSE <<SubSeq(s, i, i)>>

\* GetSubstitution: the text a replacement string stands for at one match.
\* $$ is a dollar, $& the match, $` the text before it, $' the text after
\* it, $n and $nn a capture when the regular expression has that capture;
\* any other dollar stands for itself.
RECURSIVE GetSubstitution(_, _, _, _, _)
GetSubstitution(repl, matched, before, after, caps) ==
    IF Len(repl) = 0 THEN ""
    ELSE
      LET c0 == SubSeq(repl, 1, 1)
          c1 == charAt(repl, 1)
          c2 == charAt(repl, 2)
          m == Len(caps)
          rest(k) == GetSubstitution(slice(repl, k), matched, before, after, caps)
      IN
        IF c0 # "$" \/ Len(repl) = 1 THEN c0 \o rest(1)
        ELSE IF c1 = "$" THEN "$" \o rest(2)
        ELSE IF c1 = "&" THEN matched \o rest(2)
        ELSE IF c1 = Backtick THEN before \o rest(2)
        ELSE IF c1 = "'" THEN after \o rest(2)
        ELSE IF IsDigit(c1) /\ IsDigit(c2)
                /\ 10 * DigitValue(c1) + DigitValue(c2) >= 1
                /\ 10 * DigitValue(c1) + DigitValue(c2) <= m
             THEN caps[10 * DigitValue(c1) + DigitValue(c2)] \o rest(3)
        ELSE IF IsDigit(c1) /\ DigitValue(c1) >= 1 /\ DigitValue(c1) <= m
             THEN caps[DigitValue(c1)] \o rest(2)
        ELSE "$" \o rest(1)

\* The scan of a global replace: s is the whole subject and i the position
\* reached; the leftmost match at or after i is replaced and the scan goes
\* on behind it.
RECURSIVE ReplaceFrom(_, _, _, _)
ReplaceFrom(s, re, repl, i) ==
    LET matches == {j \in i..Len(s) : MatchLen(re, s, j) > 0} IN
      IF matches = {} THEN SubSeq(s, i, Len(s))
      ELSE
        LET j == CHOOSE p \in matches : \A q \in matches : p <= q
            n == MatchLen(re, s, j)
        IN SubSeq(s, i, j - 1)
           \o GetSubstitution(repl, SubSeq(s, j, j + n - 1), SubSeq(s, 1, j - 1),
                              SubSeq(s, j + n, Len(s)), Captures(re, s, j))
           \o ReplaceFrom(s, re, repl, j + n)

\* String.prototype.replace(re, repl) with a global regular expression.
replace(s, re, repl) == ReplaceFrom(s, re, repl, 1)

-----------------------------------------------------------------------------
(* ANGULAR_PATTERNS.code_templates: the entries in declaration order. *)

ComponentTemplate ==
    "@Component({\n"
    \o "  selector: 'app-{name}',\n"
    \o "  standalone: true,\n"
    \o "  imports: [CommonModule],\n"
    \o "  template: " \o Backtick \o "<div class=\"container-fluid\">...</div>" \o Backtick \o "\n"
    \o "})\n"
    \o "export class {Name}Component {\n"
    \o "  loading = signal(false);\n"
    \o "}"

\* ServiceTemplate written with double quotes, as the README shows the generated service.
ServiceTemplate_DoubleQuotes ==
    "@Injectable({ providedIn: \"root\" })\n"
    \o "export class {Name}Service {\n"
    \o "  private http = inject(HttpClient);\n"
    \o "  private _state = signal(initialState);\n"
    \o "  state = this._state.asReadonly();\n"
    \o "}"

ServiceTemplate ==
    "@Injectable({ providedIn: 'root' })\n"
    \o "export class {Name}Service {\n"
    \o "  private http = inject(HttpClient);\n"
    \o "  private _state = signal(initialState);\n"
    \o "  state = this._state.asReadonly();\n"
    \o "}"

GuardTemplate ==
    "export const {name}Guard: CanActivateFn = (route, state) => {\n"
    \o "  const service = inject(SomeService);\n"
    \o "  return service.check();\n"
    \o "};"

code_templates ==
    << [key |-> "component", value |-> ComponentTemplate],
       [key |-> "service", value |-> ServiceTemplate],
       [key |-> "guard", value |-> GuardTemplate] >>

-----------------------------------------------------------------------------
(* ANGULAR_PATTERNS.rules and ANGULAR_PATTERNS.validation_rules, as trees  *)
(* of JSON values: a string, an array of values, or an object whose        *)
(* members keep their declaration order.                                   *)

JStr(s) == [t |-> "string", s |-> s, kids |-> <<>>]
JArr(items) == [t |-> "array", s |-> "", kids |-> items]
JObj(members) == [t |-> "object", s |-> "", kids |-> members]
Member(k, v) == [key |-> k, value |-> v]

rules ==
    JObj(<<
      Member("mandatory_structure", JObj(<<
        Member("apps", JStr("Application entry points only")),
        Member("libs", JObj(<<
          Member("core", JStr("Global singletons & infrastructure")),
          Member("shared", JStr("Reusable UI components & utilities")),
          Member("auth", JStr("Authentication & authorization")),
          Member("features", JStr("Domain-driven feature modules")),
          Member("interfaces", JStr("TypeScript type definitions")),
          Member("utils", JStr("Pure utility functions")),
          Member("styles", JStr("Design system & SCSS")),
          Member("state", JStr("Global state management")),
          Member("i18n", JStr("Internationalization")) >>)) >>)),
      Member("dependency_boundaries", JObj(<<
        Member("allowed", JObj(<<
          Member("apps/*", JArr(<<JStr("libs/*")>>)),
          Member("libs/features/*", JArr(<<JStr("libs/shared/*"), JStr("libs/core/*"),
                                           JStr("libs/interfaces/*"), JStr("libs/utils/*")>>)),
          Member("libs/shared/*", JArr(<<JStr("libs/core/*"), JStr("libs/interfaces/*"),
                                         JStr("libs/utils/*")>>)),
          Member("libs/core/*", JArr(<<JStr("libs/interfaces/*"), JStr("libs/utils/*")>>)) >>)),
        Member("forbidden", JObj(<<
          Member("libs/core/*", JArr(<<JStr("libs/features/*"), JStr("libs/shared/*")>>)),
          Member("libs/shared/*", JArr(<<JStr("libs/features/*")>>)),
          Member("cross_domain", JStr("No imports between admin/lab/billing features")) >>)) >>)),
      Member("angular_patterns", JObj(<<
        Member("components", JStr("ALWAYS standalone")),
        Member("state", JStr("ALWAYS use signals")),
        Member("routing", JStr("ALWAYS lazy loading")),
        Member("guards", JStr("ALWAYS functional with inject()")),
        Member("services", JStr("ALWAYS injectable with providedIn")),
        Member("modules", JStr("NEVER use NgModules")) >>)),
      Member("styling_patterns", JObj(<<
        Member("framework", JStr("Bootstrap 5 ONLY")),
        Member("custom_css", JStr("FORBIDDEN")),
        Member("utility_classes", JStr("REQUIRED")),
        Member("components", JStr("Use Bootstrap components")) >>)),
      Member("security_patterns", JObj(<<
        Member("auth_guards", JStr("REQUIRED for protected routes")),
        Member("interceptors", JStr("REQUIRED for HTTP auth")),
        Member("error_handling", JStr("REQUIRED with global handler")),
        Member("validation", JStr("REQUIRED for all forms")) >>)) >>)

validation_rules ==
    JArr(<< JStr("Check dependency boundaries before imports"),
            JStr("Ensure standalone components only"),
            JStr("Verify Bootstrap classes usage"),
            JStr("Confirm signals for reactive state"),
            JStr("Validate proper file structure placement"),
            JStr("Ensure proper TypeScript interfaces"),
            JStr("Check auth guards on protected routes"),
            JStr("Verify lazy loading implementation") >>)

\* The constant ANGULAR_PATTERNS, as far as the handlers read it.
ANGULAR_PATTERNS ==
    [rules |-> rules, code_templates |-> code_templates, validation_rules |-> validation_rules]

-----------------------------------------------------------------------------
(* JSON.stringify(value, null, 2). *)

\* QuoteJSONString: the double quote, the backslash and the line feed are escaped.
RECURSIVE EscapeJSON(_)
EscapeJSON(s) ==
    IF Len(s) = 0 THEN ""
    ELSE LET c == SubSeq(s, 1, 1)
             e == IF c = "\"" THEN "\\\""
                  ELSE IF c = "\\" THEN "\\\\"
                  ELSE IF c = "\n" THEN "\\n"
                  ELSE c
         IN e \o EscapeJSON(SubSeq(s, 2, Len(s)))

QuoteJSON(s) == "\"" \o EscapeJSON(s) \o "\""

RECURSIVE SerializeJSON(_, _)
RECURSIVE SerializeItems(_, _, _)
\* The members (or items) of kids, each on its own line at indent inner.
SerializeItems(node, inner, k) ==
    LET kid == node.kids[k]
        one == IF node.t = "object"
               THEN QuoteJSON(kid.key) \o ": " \o SerializeJSON(kid.value, inner)
               ELSE SerializeJSON(kid, inner)
    IN IF k = Len(node.kids) THEN inner \o one
       ELSE inner \o one \o ",\n" \o SerializeItems(node, inner, k + 1)

SerializeJSON(node, indent) ==
    IF node.t = "string" THEN QuoteJSON(node.s)
    ELSE LET open == IF node.t = "object" THEN "{" ELSE "["
             close == IF node.t = "object" THEN "}" ELSE "]"
         IN IF Len(node.kids) = 0 THEN open \o close
            ELSE open \o "\n" \o SerializeItems(node, indent \o "  ", 1)
                 \o "\n" \o indent \o close

JSONstringify(value) == SerializeJSON(value, "")

-----------------------------------------------------------------------------
(* The outcome of a function or handler: a returned value or a thrown error. *)

NoError == [name |-> "", message |-> ""]
Return(v) == [kind |-> "return", value |-> v, error |-> NoError]
Throw(n, m) == [kind |-> "throw", value |-> <<>>, error |-> [name |-> n, message |-> m]]

\* String(v) of an optional string, as a template literal renders it.
ToText(v) == IF IsString(v) THEN ValueOf(v) ELSE "undefined"

-----------------------------------------------------------------------------
(* validateAngularCode(code, type): code and type are optional strings. *)

\* ComponentIssues with the standalone check written without its blank.
ComponentIssues_NoBlank(code) ==
    (IF ~includes(code, "standalone:true")
     THEN <<"Component must be standalone">> ELSE <<>>)
    \o (IF ~includes(code, "signal(")
        THEN <<"Use signals for reactive state">> ELSE <<>>)
    \o (IF /\ includes(code, "class=")
           /\ ~includes(code, "container-fluid")
           /\ ~includes(code, "btn")
           /\ ~includes(code, "card")
        THEN <<"Use Bootstrap classes instead of custom CSS">> ELSE <<>>)

\* The issues pushed by the block of "component".
ComponentIssues(code) ==
    (IF ~includes(code, "standalone: true")
     THEN <<"Component must be standalone">> ELSE <<>>)
    \o (IF ~includes(code, "signal(")
        THEN <<"Use signals for reactive state">> ELSE <<>>)
    \o (IF /\ includes(code, "class=")
           /\ ~includes(code, "container-fluid")
           /\ ~includes(code, "btn")
           /\ ~includes(code, "card")
        THEN <<"Use Bootstrap classes instead of custom CSS">> ELSE <<>>)

\* ServiceIssues with the inject check looking for "inject" followed by a blank.
ServiceIssues_InjectBlank(code) ==
    (IF ~includes(code, "providedIn: 'root'")
     THEN <<"Service must use providedIn: root">> ELSE <<>>)
    \o (IF ~includes(code, "inject (")
        THEN <<"Use inject() function for dependency injection">> ELSE <<>>)

\* ServiceIssues that accepts root in single or in double quotes.
ServiceIssues_EitherQuote(code) ==
    (IF ~includes(code, "providedIn: 'root'") /\ ~includes(code, "providedIn: \"root\"")
     THEN <<"Service must use providedIn: root">> ELSE <<>>)
    \o (IF ~includes(code, "inject(")
        THEN <<"Use inject() function for dependency injection">> ELSE <<>>)

\* The issues pushed by the block of "service".
ServiceIssues(code) ==
    (IF ~includes(code, "providedIn: 'root'")
     THEN <<"Service must use providedIn: root">> ELSE <<>>)
    \o (IF ~includes(code, "inject(")
        THEN <<"Use inject() function for dependency injection">> ELSE <<>>)

\* validateAngularCode that also holds a guard to the inject check.
validateAngularCode_GuardChecked(code, type) ==
    IF type = Str("component") /\ IsString(code) THEN Return(ComponentIssues(ValueOf(code)))
    ELSE IF type = Str("service") /\ IsString(code) THEN Return(ServiceIssues(ValueOf(code)))
    ELSE IF type = Str("guard") /\ IsString(code) /\ ~includes(ValueOf(code), "inject(")
    THEN Return(<<"Use inject() function for dependency injection">>)
    ELSE IF type \in {Str("component"), Str("service")}
    THEN Throw("TypeError", "Cannot read properties of undefined (reading 'includes')")
    ELSE Return(<<>>)

\* validateAngularCode whose two blocks both run for a component and for a service.
validateAngularCode_BothBlocks(code, type) ==
    IF type \in {Str("component"), Str("service")}
    THEN IF IsString(code)
         THEN Return(ComponentIssues(ValueOf(code)) \o ServiceIssues(ValueOf(code)))
         ELSE Throw("TypeError", "Cannot read properties of undefined (reading 'includes')")
    ELSE Return(<<>>)

validateAngularCode(code, type) ==
    IF type = Str("component")
    THEN IF IsString(code) THEN Return(ComponentIssues(ValueOf(code)))
         ELSE Throw("TypeError", "Cannot read properties of undefined (reading 'includes')")
    ELSE IF type = Str("service")
    THEN IF IsString(code) THEN Return(ServiceIssues(ValueOf(code)))
         ELSE Throw("TypeError", "Cannot read properties of undefined (reading 'includes')")
    ELSE Return(<<>>)

-----------------------------------------------------------------------------
(* generateTemplate(type, name): type and name are optional strings. *)

\* The properties every object literal inherits from Object.prototype.
ObjectPrototypeKeys ==
    { "constructor", "toString", "toLocaleString", "valueOf", "hasOwnProperty",
      "isPrototypeOf", "propertyIsEnumerable", "__proto__", "__defineGetter__",
      "__defineSetter__", "__lookupGetter__", "__lookupSetter__" }

\* templates[type]: an own entry is its text, an inherited property is a
\* value that is no string (a function, or the prototype object), and any
\* other key is undefined.
GetProperty(templates, key) ==
    IF \E k \in 1..Len(templates) : templates[k].key = key
    THEN [t |-> "string",
          s |-> templates[CHOOSE k \in 1..Len(templates) : templates[k].key = key].value]
    ELSE IF key \in ObjectPrototypeKeys THEN [t |-> "inherited", s |-> ""]
    ELSE [t |-> "undefined", s |-> ""]

\* !template
IsFalsy(v) == v.t = "undefined" \/ (v.t = "string" /\ v.s = "")

\* name.toLowerCase().replace(/([A-Z])/g, "-$1").slice(1)
KebabArgument(name) == slice(replace(toLowerCase(name), RE_upper, "-$1"), 1)

\* name.charAt(0).toUpperCase() + name.slice(1)
PascalArgument(name) == toUpperCase(charAt(name, 0)) \o slice(name, 1)

\* template.replace(/\{name\}/g, ...)
ReplaceNameStep(template, name) == replace(template, RE_name, KebabArgument(name))

\* (...).replace(/\{Name\}/g, ...)
ReplaceNameStepPascal(text, name) == replace(text, RE_Name, PascalArgument(name))

generateTemplate(type, name) ==
    LET templates == catalog.code_templates
        template == GetProperty(templates, ToText(type))
    IN IF IsFalsy(template)
       THEN Return("Template not found for type: " \o ToText(type))
       ELSE IF ~IsString(name)
       THEN Throw("TypeError", "Cannot read properties of undefined (reading 'toLowerCase')")
       ELSE IF template.t # "string"
       THEN Throw("TypeError", "template.replace is not a function")
       ELSE Return(ReplaceNameStepPascal(ReplaceNameStep(template.s, ValueOf(name)),
                                         ValueOf(name)))

-----------------------------------------------------------------------------
(* The request handlers. *)

\* The two marks that open the texts of validate-angular-code (U+2705, U+274C).
OkMark == "(U+2705)"
CrossMark == "(U+274C)"

\* ResourceDescriptors with a fourth resource after the three.
ResourceDescriptors_WithFourth ==
    << [uri |-> "patterns://angular/rules", mimeType |-> "application/json",
        name |-> "Angular Patterns Rules",
        description |-> "Complete set of enterprise Angular patterns and rules"],
       [uri |-> "patterns://angular/templates", mimeType |-> "text/plain",
        name |-> "Code Templates",
        description |-> "Reusable Angular code templates"],
       [uri |-> "patterns://angular/validation", mimeType |-> "application/json",
        name |-> "Validation Rules",
        description |-> "Rules for validating Angular code"],
       [uri |-> "patterns://angular/examples", mimeType |-> "text/plain",
        name |-> "Examples",
        description |-> "Example Angular code"] >>

ResourceDescriptors ==
    << [uri |-> "patterns://angular/rules", mimeType |-> "application/json",
        name |-> "Angular Patterns Rules",
        description |-> "Complete set of enterprise Angular patterns and rules"],
       [uri |-> "patterns://angular/templates", mimeType |-> "text/plain",
        name |-> "Code Templates",
        description |-> "Reusable Angular code templates"],
       [uri |-> "patterns://angular/validation", mimeType |-> "application/json",
        name |-> "Validation Rules",
        description |-> "Rules for validating Angular code"] >>

\* ListResourcesRequestSchema handler
ListResourcesHandler == Return([resources |-> ResourceDescriptors])

\* TemplatesText that puts each block on the line after the one before it.
TemplatesText_SingleNewline(templates) ==
    join([k \in 1..Len(templates) |->
            "// " \o toUpperCase(templates[k].key) \o " TEMPLATE\n" \o templates[k].value],
         "\n")

\* Object.entries(code_templates).map(...).join("\n\n")
TemplatesText(templates) ==
    join([k \in 1..Len(templates) |->
            "// " \o toUpperCase(templates[k].key) \o " TEMPLATE\n" \o templates[k].value],
         "\n\n")

\* ReadResourceHandler that serves the rules for every uri that starts like theirs.
ReadResourceHandler_PrefixMatch(uri) ==
    IF Len(uri) >= Len("patterns://angular/rules")
       /\ SubSeq(uri, 1, Len("patterns://angular/rules")) = "patterns://angular/rules"
    THEN Return([contents |-> << [uri |-> uri, mimeType |-> "application/json",
                                  text |-> JSONstringify(catalog.rules)] >>])
    ELSE IF uri = "patterns://angular/templates"
    THEN Return([contents |-> << [uri |-> uri, mimeType |-> "text/plain",
                                  text |-> TemplatesText(catalog.code_templates)] >>])
    ELSE IF uri = "patterns://angular/validation"
    THEN Return([contents |-> << [uri |-> uri, mimeType |-> "application/json",
                                  text |-> JSONstringify(catalog.validation_rules)] >>])
    ELSE Throw("Error", "Resource not found: " \o uri)

\* ReadResourceHandler that serves the templates as application/json.
ReadResourceHandler_JsonTemplates(uri) ==
    IF uri = "patterns://angular/rules"
    THEN Return([contents |-> << [uri |-> uri, mimeType |-> "application/json",
                                  text |-> JSONstringify(catalog.rules)] >>])
    ELSE IF uri = "patterns://angular/templates"
    THEN Return([contents |-> << [uri |-> uri, mimeType |-> "application/json",
                                  text |-> TemplatesText(catalog.code_templates)] >>])
    ELSE IF uri = "patterns://angular/validation"
    THEN Return([contents |-> << [uri |-> uri, mimeType |-> "application/json",
                                  text |-> JSONstringify(catalog.validation_rules)] >>])
    ELSE Throw("Error", "Resource not found: " \o uri)

\* ReadResourceRequestSchema handler
ReadResourceHandler(uri) ==
    IF uri = "patterns://angular/rules"
    THEN Return([contents |-> << [uri |-> uri, mimeType |-> "application/json",
                                  text |-> JSONstringify(catalog.rules)] >>])
    ELSE IF uri = "patterns://angular/templates"
    THEN Return([contents |-> << [uri |-> uri, mimeType |-> "text/plain",
                                  text |-> TemplatesText(catalog.code_templates)] >>])
    ELSE IF uri = "patterns://angular/validation"
    THEN Return([contents |-> << [uri |-> uri, mimeType |-> "application/json",
                                  text |-> JSONstringify(catalog.validation_rules)] >>])
    ELSE Throw("Error", "Resource not found: " \o uri)

\* ToolDescriptors whose generate tool accepts the four types of the validate tool.
ToolDescriptors_GenerateRouting ==
    << [name |-> "validate-angular-code",
        description |-> "Validate Angular code against realworld patterns",
        inputSchema |->
          [type |-> "object",
           properties |-> << [name |-> "code", type |-> "string", enum |-> <<>>,
                              description |-> "Angular code to validate"],
                             [name |-> "type", type |-> "string",
                              enum |-> <<"component", "service", "guard", "routing">>,
                              description |-> "Type of Angular code"] >>,
           required |-> <<"code", "type">>]],
       [name |-> "generate-angular-template",
        description |-> "Generate Angular code template following patterns",
        inputSchema |->
          [type |-> "object",
           properties |-> << [name |-> "type", type |-> "string",
                              enum |-> <<"component", "service", "guard", "routing">>,
                              description |-> "Type of template to generate"],
                             [name |-> "name", type |-> "string", enum |-> <<>>,
                              description |-> "Name for the generated code"] >>,
           required |-> <<"type", "name">>]] >>

ToolDescriptors ==
    << [name |-> "validate-angular-code",
        description |-> "Validate Angular code against realworld patterns",
        inputSchema |->
          [type |-> "object",
           properties |-> << [name |-> "code", type |-> "string", enum |-> <<>>,
                              description |-> "Angular code to validate"],
                             [name |-> "type", type |-> "string",
                              enum |-> <<"component", "service", "guard", "routing">>,
                              description |-> "Type of Angular code"] >>,
           required |-> <<"code", "type">>]],
       [name |-> "generate-angular-template",
        description |-> "Generate Angular code template following patterns",
        inputSchema |->
          [type |-> "object",
           properties |-> << [name |-> "type", type |-> "string",
                              enum |-> <<"component", "service", "guard">>,
                              description |-> "Type of template to generate"],
                             [name |-> "name", type |-> "string", enum |-> <<>>,
                              description |-> "Name for the generated code"] >>,
           required |-> <<"type", "name">>]] >>

\* ListToolsRequestSchema handler
ListToolsHandler == Return([tools |-> ToolDescriptors])

\* One text block.
TextContent(text) == [content |-> << [type |-> "text", text |-> text] >>]

\* ValidationText that joins the bullets with a comma.
ValidationText_CommaJoined(issues) ==
    IF Len(issues) = 0
    THEN OkMark \o " Code follows all realworld patterns!"
    ELSE CrossMark \o " Issues found:\n"
         \o join([k \in 1..Len(issues) |-> "- " \o issues[k]], ", ")

\* issues.map((i) => `- ${i}`).join("\n") under its header, or the success text.
ValidationText(issues) ==
    IF Len(issues) = 0
    THEN OkMark \o " Code follows all realworld patterns!"
    ELSE CrossMark \o " Issues found:\n"
         \o join([k \in 1..Len(issues) |-> "- " \o issues[k]], "\n")

\* case "validate-angular-code"
ValidateCase(args) ==
    IF Len(args) = 0
    THEN Throw("TypeError", "Cannot destructure property 'code' of 'args' as it is undefined.")
    ELSE LET issues == validateAngularCode(args[1].code, args[1].type)
         IN IF issues.kind = "throw" THEN issues
            ELSE Return(TextContent(ValidationText(issues.value)))

\* case "generate-angular-template"
GenerateCase(args) ==
    IF Len(args) = 0
    THEN Throw("TypeError", "Cannot destructure property 'type' of 'args' as it is undefined.")
    ELSE LET template == generateTemplate(args[1].type, args[1].name)
         IN IF template.kind = "throw" THEN template
            ELSE Return(TextContent(template.value))

\* CallToolHandler that destructures the arguments before it looks at the name.
CallToolHandler_DestructureFirst(name, args) ==
    IF Len(args) = 0
    THEN Throw("TypeError", "Cannot destructure property 'code' of 'args' as it is undefined.")
    ELSE IF name = "validate-angular-code" THEN ValidateCase(args)
    ELSE IF name = "generate-angular-template" THEN GenerateCase(args)
    ELSE Throw("Error", "Tool not found: " \o name)

\* CallToolRequestSchema handler: args is <<>> when the request has no
\* arguments and <<a>> for the arguments a.
CallToolHandler(name, args) ==
    IF name = "validate-angular-code" THEN ValidateCase(args)
    ELSE IF name = "generate-angular-template" THEN GenerateCase(args)
    ELSE Throw("Error", "Tool not found: " \o name)

-----------------------------------------------------------------------------
(* The requests a client sends. *)

KnownUris ==
    {"patterns://angular/rules", "patterns://angular/templates", "patterns://angular/validation"}

UriInputs ==
    KnownUris \cup {"patterns://angular/unknown", "patterns://angular/rules/",
                    "patterns://angular/Rules", "rules", ""}

KnownTools == {"validate-angular-code", "generate-angular-template"}

ToolNameInputs ==
    KnownTools \cup {"unknown-tool", "validate-angular-code ", "Generate-Angular-Template",
                     "constructor", ""}

CodeFragments ==
    << "class X {}",
       "@Component({standalone: true})",
       " x = signal(1);",
       "<p class=\"hero\"></p>",
       "<a class=\"btn\"></a>",
       "// card\n",
       "@Injectable({ providedIn: 'root' })",
       " h = inject(H);" >>

ExampleCodes ==
    { "",
      "@Component({standalone: true}) class X { x = signal(1); }",
      "@Injectable({ providedIn: \"root\" }) class S { h = inject(H); }",
      "<div class=\"container-fluid\"><p class=\"hero\"></p></div>",
      "standalone: true signal( class=x discard",
      "<p class=\"hero\" id=\"btn\"></p>",
      "// libs/core/src/lib/auth.service.ts\n"
        \o "import { AdminPanel } from 'libs/features/admin';\n"
        \o "@Injectable({ providedIn: 'root' }) class Auth { h = inject(H); }" }

\* Every text made of n fragments.
RECURSIVE FragmentTexts(_)
FragmentTexts(n) ==
    IF n = 0 THEN {""}
    ELSE {t \o CodeFragments[k] : t \in FragmentTexts(n - 1), k \in 1..Len(CodeFragments)}

CodeInputs == ExampleCodes \cup UNION {FragmentTexts(n) : n \in 0..MaxFrags}

NameAlphabet == <<"U", "l", "$", "&">>

\* Every text of n characters of the alphabet.
RECURSIVE AlphabetTexts(_)
AlphabetTexts(n) ==
    IF n = 0 THEN {""}
    ELSE {t \o NameAlphabet[k] : t \in AlphabetTexts(n - 1), k \in 1..Len(NameAlphabet)}

ExampleNames ==
    { "UserList", "userList", "user", "X", "user-list", "A$&", "x$'", "x$" \o Backtick,
      "$1", "a$$b", "{Name}", "x{name}" }

NameInputs == ExampleNames \cup UNION {AlphabetTexts(n) : n \in 0..MaxNameLen}

ValidateTypeInputs ==
    {"component", "service", "guard", "routing", "pipe", "Component", "constructor", ""}

GenerateTypeInputs ==
    {"component", "service", "guard", "routing", "nonexistent", "Component", "",
     "constructor", "toString", "__proto__", "hasOwnProperty", "undefined"}

Optional(S) == {Undefined} \cup {Str(x) : x \in S}

ValidateArgs ==
    {[code |-> c, type |-> t, name |-> Undefined] :
        c \in Optional(CodeInputs), t \in Optional(ValidateTypeInputs)}

GenerateArgs ==
    {[code |-> Undefined, type |-> t, name |-> n] :
        t \in Optional(GenerateTypeInputs), n \in Optional(NameInputs)}

\* The arguments of a call-tool request: absent, or one record.
ArgInputs == {<<>>} \cup {<<a>> : a \in ValidateArgs \cup GenerateArgs}

ListResourcesRequest == [op |-> "resources/list", uri |-> "", name |-> "", args |-> <<>>]
ReadResourceRequest(uri) == [op |-> "resources/read", uri |-> uri, name |-> "", args |-> <<>>]
ListToolsRequest == [op |-> "tools/list", uri |-> "", name |-> "", args |-> <<>>]
CallToolRequest(name, args) == [op |-> "tools/call", uri |-> "", name |-> name, args |-> args]

\* Every request of the input sets.
Requests ==
    {ListResourcesRequest, ListToolsRequest}
    \cup {ReadResourceRequest(uri) : uri \in UriInputs}
    \cup {CallToolRequest(name, args) : name \in ToolNameInputs, args \in ArgInputs}

\* The requests a client sends one after another: every kind of request, with
\* a failing one of each kind of failure.
SequenceRequests ==
    { ListResourcesRequest,
      ListToolsRequest,
      ReadResourceRequest("patterns://angular/templates"),
      ReadResourceRequest("patterns://angular/validation"),
      ReadResourceRequest("patterns://angular/unknown"),
      CallToolRequest("validate-angular-code",
          <<[code |-> Str("class X {}"), type |-> Str("component"), name |-> Undefined]>>),
      CallToolRequest("validate-angular-code", <<>>),
      CallToolRequest("generate-angular-template",
          <<[code |-> Undefined, type |-> Str("component"), name |-> Str("UserList")]>>),
      CallToolRequest("unknown-tool", <<>>) }

-----------------------------------------------------------------------------
(* The server: main connects the transport; the transport hands requests   *)
(* to the server in the order they arrive; each handler is an async        *)
(* function without an await, so it runs from its request to its result in *)
(* one step.  req and resp are the last request served and its response.   *)
(* kept and failedSince belong to the client: one earlier exchange it      *)
(* chose to keep, and whether a request has failed since it kept it.       *)

\* merge-repos.sh is a program of its own; while the server runs it is not running.
ScriptNotRun == [pc |-> "not_run"]

NoRequest == [op |-> "none", uri |-> "", name |-> "", args |-> <<>>]
NoResponse == [kind |-> "none", result |-> <<>>, error |-> NoError]
NoKept == [req |-> NoRequest, resp |-> NoResponse]

\* What the protocol layer sends back for the outcome of a handler.
Respond(outcome) ==
    IF outcome.kind = "return"
    THEN [kind |-> "result", result |-> outcome.value, error |-> NoError]
    ELSE [kind |-> "error", result |-> <<>>, error |-> outcome.error]

\* The process as the operating system sees it: how often main connected the
\* transport, what was written to standard error, and the exit status once the
\* process has exited (<<>> while it runs).
NotConnected == [connects |-> 0, stderr |-> <<>>, exitStatus |-> <<>>]
Connected == [connects |-> 1, stderr |-> <<>>, exitStatus |-> <<>>]

Init ==
    /\ phase = "starting"
    /\ proc = NotConnected
    /\ catalog = ANGULAR_PATTERNS
    /\ inbox = <<>>
    /\ req = NoRequest
    /\ resp = NoResponse
    /\ kept = NoKept
    /\ failedSince = FALSE
    /\ sh = ScriptNotRun

\* main: server.connect(transport) resolves.
Connect ==
    /\ phase = "starting"
    /\ phase' = "serving"
    /\ proc' = [proc EXCEPT !.connects = @ + 1]
    /\ UNCHANGED <<catalog, inbox, req, resp, kept, failedSince, sh>>

\* ConnectFails that ends the process with status 0.
ConnectFails_ExitsZero ==
    /\ phase = "starting"
    /\ phase' = "exited"
    /\ proc' = [connects |-> proc.connects + 1,
                stderr |-> Append(proc.stderr, "Server error:"),
                exitStatus |-> <<0>>]
    /\ UNCHANGED <<catalog, inbox, req, resp, kept, failedSince, sh>>

\* main().catch: server.connect(transport) rejects; console.error, process.exit(1).
ConnectFails ==
    /\ phase = "starting"
    /\ phase' = "exited"
    /\ proc' = [connects |-> proc.connects + 1,
                stderr |-> Append(proc.stderr, "Server error:"),
                exitStatus |-> <<1>>]
    /\ UNCHANGED <<catalog, inbox, req, resp, kept, failedSince, sh>>

\* The transport hands the next request to the server.
Receive ==
    /\ phase = "serving"
    /\ Len(inbox) < MaxInbox
    /\ \E r \in SequenceRequests : inbox' = Append(inbox, r)
    /\ UNCHANGED <<phase, proc, catalog, req, resp, kept, failedSince, sh>>

\* The oldest request not served yet is of this kind.
Pending(op) == phase = "serving" /\ inbox # <<>> /\ Head(inbox).op = op

\* The client reads the response to the request just served, and keeps the
\* exchange or not.
ClientReads(response) ==
    \E keep \in BOOLEAN :
        IF keep
        THEN /\ kept' = [req |-> Head(inbox), resp |-> response]
             /\ failedSince' = FALSE
        ELSE /\ kept' = kept
             /\ failedSince' = (kept # NoKept /\ (failedSince \/ response.kind = "error"))

\* The handler's outcome is sent back as the one response to the oldest request.
Answer(outcome) ==
    /\ req' = Head(inbox)
    /\ resp' = Respond(outcome)
    /\ inbox' = Tail(inbox)
    /\ ClientReads(Respond(outcome))

ListResources ==
    /\ Pending("resources/list")
    /\ Answer(ListResourcesHandler)
    /\ UNCHANGED <<phase, proc, catalog, sh>>

\* ReadResource that ends the process when the uri is not found.
ReadResource_ExitsOnMiss ==
    /\ Pending("resources/read")
    /\ Answer(ReadResourceHandler(Head(inbox).uri))
    /\ phase' = IF ReadResourceHandler(Head(inbox).uri).kind = "throw"
                THEN "exited" ELSE phase
    /\ UNCHANGED <<proc, catalog, sh>>

\* ReadResource that upper-cases the keys of the templates in place when it
\* labels them.
ReadResource_RenamesKeys ==
    /\ Pending("resources/read")
    /\ Answer(ReadResourceHandler(Head(inbox).uri))
    /\ catalog' =
         IF Head(inbox).uri = "patterns://angular/templates"
         THEN [catalog EXCEPT !.code_templates =
                 [k \in 1..Len(catalog.code_templates) |->
                    [key |-> toUpperCase(catalog.code_templates[k].key),
                     value |-> catalog.code_templates[k].value]]]
         ELSE catalog
    /\ UNCHANGED <<phase, proc, sh>>

ReadResource ==
    /\ Pending("resources/read")
    /\ Answer(ReadResourceHandler(Head(inbox).uri))
    /\ UNCHANGED <<phase, proc, catalog, sh>>

ListTools ==
    /\ Pending("tools/list")
    /\ Answer(ListToolsHandler)
    /\ UNCHANGED <<phase, proc, catalog, sh>>

\* CallTool that stores a generated text in the place of its template.
CallTool_WritesBack ==
    /\ Pending("tools/call")
    /\ Answer(CallToolHandler(Head(inbox).name, Head(inbox).args))
    /\ LET outcome == CallToolHandler(Head(inbox).name, Head(inbox).args)
       IN catalog' =
            IF Head(inbox).name = "generate-angular-template" /\ outcome.kind = "return"
            THEN [catalog EXCEPT !.code_templates =
                    [k \in 1..Len(catalog.code_templates) |->
                       IF Str(catalog.code_templates[k].key) = Head(inbox).args[1].type
                       THEN [key |-> catalog.code_templates[k].key,
                             value |-> outcome.value.content[1].text]
                       ELSE catalog.code_templates[k]]]
            ELSE catalog
    /\ UNCHANGED <<phase, proc, sh>>

\* CallTool that sends nothing back when the tool throws.
CallTool_SilentOnThrow ==
    /\ Pending("tools/call")
    /\ IF CallToolHandler(Head(inbox).name, Head(inbox).args).kind = "throw"
       THEN /\ inbox' = Tail(inbox)
            /\ UNCHANGED <<req, resp, kept, failedSince>>
       ELSE Answer(CallToolHandler(Head(inbox).name, Head(inbox).args))
    /\ UNCHANGED <<phase, proc, catalog, sh>>

CallTool ==
    /\ Pending("tools/call")
    /\ Answer(CallToolHandler(Head(inbox).name, Head(inbox).args))
    /\ UNCHANGED <<phase, proc, catalog, sh>>

Next ==
    \/ Connect
    \/ ConnectFails
    \/ Receive
    \/ ListResources
    \/ ReadResource
    \/ ListTools
    \/ CallTool

Spec == Init /\ [][Next]_vars

\* One request of the input sets, handed to a connected server.
InitRequest ==
    /\ phase = "serving"
    /\ proc = Connected
    /\ catalog = ANGULAR_PATTERNS
    /\ inbox \in {<<r>> : r \in Requests}
    /\ req = NoRequest
    /\ resp = NoResponse
    /\ kept = NoKept
    /\ failedSince = FALSE
    /\ sh = ScriptNotRun

NextRequest == ListResources \/ ReadResource \/ ListTools \/ CallTool

SpecRequest == InitRequest /\ [][NextRequest]_vars

\* The validation calls sent in pairs: every example and every fragment as code,
\* as a component and as a service.
ValidatePairRequests ==
    {CallToolRequest("validate-angular-code",
         <<[code |-> Str(c), type |-> Str(t), name |-> Undefined]>>) :
       c \in ExampleCodes \cup {CodeFragments[k] : k \in 1..Len(CodeFragments)},
       t \in {"component", "service"}}

\* Two validation calls, handed one after the other to a connected server.
InitValidate ==
    /\ phase = "serving"
    /\ proc = Connected
    /\ catalog = ANGULAR_PATTERNS
    /\ inbox \in {<<a, b>> : a, b \in ValidatePairRequests}
    /\ req = NoRequest
    /\ resp = NoResponse
    /\ kept = NoKept
    /\ failedSince = FALSE
    /\ sh = ScriptNotRun

NextValidate == CallTool

SpecValidate == InitValidate /\ [][NextValidate]_vars

-----------------------------------------------------------------------------
(* merge-repos.sh: the script that merges the configured repositories into *)
(* one repository with git subtree.  It runs under set -e.  sh holds the   *)
(* position of the script, its configuration and arguments, the state of   *)
(* the git repository it works in, what it ran and printed, and its exit   *)
(* status.  The messages are kept without the colours and the marks that   *)
(* print_info, print_success, print_warning and print_error put around     *)
(* them.                                                                   *)

ServerVars == <<phase, proc, catalog, inbox, req, resp, kept, failedSince>>

MAIN_REPO_URL == "https://github.com/yourusername/main-repo.git"

\* declare -a REPOS=( ... )
ConfiguredRepos ==
    << "https://github.com/yourusername/admin-app.git:apps/admin:main",
       "https://github.com/yourusername/lab-app.git:apps/lab:main",
       "https://github.com/yourusername/billing-app.git:apps/billing:main",
       "https://github.com/yourusername/shared-lib.git:libs/shared:main",
       "https://github.com/yourusername/core-lib.git:libs/core:main" >>

\* The 1-based position of the first c in s, 0 when there is none.
FirstPos(s, c) ==
    IF includes(s, c)
    THEN CHOOSE i \in 1..Len(s) :
           /\ SubSeq(s, i, i) = c
           /\ \A j \in 1..(i - 1) : SubSeq(s, j, j) # c
    ELSE 0

\* The 1-based position of the last c in s, 0 when there is none.
LastPos(s, c) ==
    IF includes(s, c)
    THEN CHOOSE i \in 1..Len(s) :
           /\ SubSeq(s, i, i) = c
           /\ \A j \in (i + 1)..Len(s) : SubSeq(s, j, j) # c
    ELSE 0

\* IFS=':' read -r repo_url target_dir branch <<< "$repo_config", for a line
\* that does not end with a colon: the line is cut at its first two colons and
\* the last variable takes all that is left.
ReadFields(repo_config) ==
    LET j == FirstPos(repo_config, ":")
        rest == SubSeq(repo_config, j + 1, Len(repo_config))
        k == FirstPos(rest, ":")
    IN IF j = 0 THEN [repo_url |-> repo_config, target_dir |-> "", branch |-> ""]
       ELSE IF k = 0
       THEN [repo_url |-> SubSeq(repo_config, 1, j - 1), target_dir |-> rest, branch |-> ""]
       ELSE [repo_url |-> SubSeq(repo_config, 1, j - 1),
             target_dir |-> SubSeq(rest, 1, k - 1),
             branch |-> SubSeq(rest, k + 1, Len(rest))]

\* basename "$repo_url" .git, for a url that does not end with a slash
Basename(path, suffix) ==
    LET base == SubSeq(path, LastPos(path, "/") + 1, Len(path))
        n == Len(base) - Len(suffix)
    IN IF n > 0 /\ SubSeq(base, n + 1, Len(base)) = suffix
       THEN SubSeq(base, 1, n) ELSE base

\* tr '[:upper:]' '[:lower:]' | tr '-' '_'
RECURSIVE TrLowerUnderscore(_)
TrLowerUnderscore(s) ==
    IF Len(s) = 0 THEN ""
    ELSE (IF SubSeq(s, 1, 1) = "-" THEN "_" ELSE LowerChar(SubSeq(s, 1, 1)))
         \o TrLowerUnderscore(SubSeq(s, 2, Len(s)))

RemoteName(repo_url) == TrLowerUnderscore(Basename(repo_url, ".git"))

\* merge_repository that leaves the remote in place when it skips an existing
\* target directory.
merge_repository_SkipKeepsRemote(git, repo_url, target_dir, branch, fetchOk, subtreeOk) ==
    LET remote_name == RemoteName(repo_url)
        removeOld == IF remote_name \in git.remotes
                     THEN <<"git remote remove " \o remote_name>> ELSE <<>>
        add == <<"git remote add " \o remote_name \o " " \o repo_url>>
        fetch == <<"git fetch " \o remote_name>>
        remove == <<"git remote remove " \o remote_name>>
        added == git.remotes \cup {remote_name}
        subtree == <<"mkdir -p", "git subtree add --prefix=" \o target_dir \o " "
                       \o remote_name \o " " \o branch \o " --squash">>
    IN IF ~fetchOk
       THEN [remotes |-> added \ {remote_name}, dirs |-> git.dirs, status |-> 1,
             path |-> "fetch_failed", ran |-> removeOld \o add \o fetch \o remove]
       ELSE IF target_dir \in git.dirs
       THEN [remotes |-> added, dirs |-> git.dirs, status |-> 0,
             path |-> "skipped", ran |-> removeOld \o add \o fetch]
       ELSE IF ~subtreeOk
       THEN [remotes |-> added \ {remote_name}, dirs |-> git.dirs, status |-> 1,
             path |-> "subtree_failed",
             ran |-> removeOld \o add \o fetch \o subtree \o remove]
       ELSE [remotes |-> added \ {remote_name}, dirs |-> git.dirs \cup {target_dir},
             status |-> 0, path |-> "merged",
             ran |-> removeOld \o add \o fetch \o subtree \o remove]

\* merge_repository in the repository git, where the fetch and the subtree add
\* succeed or fail as fetchOk and subtreeOk say: the remotes and the
\* directories it leaves, its return status, the return path it took and the
\* commands it ran.
merge_repository(git, repo_url, target_dir, branch, fetchOk, subtreeOk) ==
    LET remote_name == RemoteName(repo_url)
        removeOld == IF remote_name \in git.remotes
                     THEN <<"git remote remove " \o remote_name>> ELSE <<>>
        add == <<"git remote add " \o remote_name \o " " \o repo_url>>
        fetch == <<"git fetch " \o remote_name>>
        remove == <<"git remote remove " \o remote_name>>
        added == git.remotes \cup {remote_name}
        subtree == <<"mkdir -p", "git subtree add --prefix=" \o target_dir \o " "
                       \o remote_name \o " " \o branch \o " --squash">>
    IN IF ~fetchOk
       THEN [remotes |-> added \ {remote_name}, dirs |-> git.dirs, status |-> 1,
             path |-> "fetch_failed", ran |-> removeOld \o add \o fetch \o remove]
       ELSE IF target_dir \in git.dirs
       THEN [remotes |-> added \ {remote_name}, dirs |-> git.dirs, status |-> 0,
             path |-> "skipped", ran |-> removeOld \o add \o fetch \o remove]
       ELSE IF ~subtreeOk
       THEN [remotes |-> added \ {remote_name}, dirs |-> git.dirs, status |-> 1,
             path |-> "subtree_failed",
             ran |-> removeOld \o add \o fetch \o subtree \o remove]
       ELSE [remotes |-> added \ {remote_name}, dirs |-> git.dirs \cup {target_dir},
             status |-> 0, path |-> "merged",
             ran |-> removeOld \o add \o fetch \o subtree \o remove]

\* A number as the shell prints it.
RECURSIVE ToDecimal(_)
ToDecimal(n) ==
    IF n < 10 THEN SubSeq(Digits, n + 1, n + 1)
    ELSE ToDecimal(n \div 10) \o SubSeq(Digits, (n % 10) + 1, (n % 10) + 1)

\* The entries an edited REPOS array is made of, next to the configured ones.
RepoEntries ==
    { ConfiguredRepos[1],
      "../admin-app:apps/admin:main",
      "/srv/git/Origin.git:libs/core:develop" }

RECURSIVE EntryLists(_)
EntryLists(n) ==
    IF n = 0 THEN {<<>>}
    ELSE {Append(l, e) : l \in EntryLists(n - 1), e \in RepoEntries}

ReposInputs == {ConfiguredRepos} \cup UNION {EntryLists(n) : n \in 0..MaxRepos}

\* The first argument of the script; "" when there is none.
ArgumentInputs == {"", "-h", "--help"}

\* What read -n 1 -r leaves in REPLY: one character, nothing when the user only
\* pressed return; <<>> when the input has ended and read fails.
Replies == {<<>>} \cup {<<c>> : c \in {"y", "Y", "n", "N", "x", ""}}

\* [[ $REPLY =~ ^[Yy]$ ]]
Consents(reply) == reply \in {<<"y">>, <<"Y">>}

\* What a cloned main repository may hold already.
ClonedRepositories ==
    { [remotes |-> {"origin"}, dirs |-> {}],
      [remotes |-> {"origin"}, dirs |-> {"apps/admin"}] }

Say(st, line) == [st EXCEPT !.out = Append(@, line)]
Exit(st, status) == [st EXCEPT !.pc = "exited", !.exit = <<status>>]

\* While the script runs the server is not running and has loaded no catalog.
NoCatalog == [rules |-> <<>>, code_templates |-> <<>>, validation_rules |-> <<>>]

InitMerge ==
    /\ phase = "not_run"
    /\ proc = NotConnected
    /\ catalog = NoCatalog
    /\ inbox = <<>>
    /\ req = NoRequest
    /\ resp = NoResponse
    /\ kept = NoKept
    /\ failedSince = FALSE
    /\ sh \in {[pc |-> "start", argv1 |-> a, repos |-> r, mainRepoUrl |-> u,
                arithErrexit |-> e, consents |-> 0, unread |-> FALSE,
                i |-> 1, success_count |-> 0, remotes |-> {}, dirs |-> {},
                calls |-> <<>>, log |-> <<>>, out |-> <<>>, exit |-> <<>>] :
               a \in ArgumentInputs, r \in ReposInputs,
               u \in {MAIN_REPO_URL, "https://github.com/acme/monorepo.git"},
               e \in BOOLEAN}

\* case "${1:-}" in -h|--help) show_help; exit 0 ;; *) main "$@" ;; esac
ParseArguments ==
    /\ sh.pc = "start"
    /\ sh' = IF sh.argv1 \in {"-h", "--help"}
             THEN Exit(Say(sh, "GitHub Repository Merger Script"), 0)
             ELSE [Say(sh, "GitHub Repository Merger") EXCEPT !.pc = "ask_proceed"]
    /\ UNCHANGED ServerVars

\* main: read -p "Do you want to proceed? (y/n): " -n 1 -r and its test
AskProceed ==
    /\ sh.pc = "ask_proceed"
    /\ \E reply \in Replies :
         sh' = IF reply = <<>> THEN Exit([sh EXCEPT !.unread = TRUE], 1)
               ELSE IF ~Consents(reply)
               THEN Exit(Say(sh, "Operation cancelled by user"), 0)
               ELSE [sh EXCEPT !.pc = "ask_directory", !.consents = @ + 1]
    /\ UNCHANGED ServerVars

\* AskDirectory that goes on whatever the answer is.
AskDirectory_AnyAnswer ==
    /\ sh.pc = "ask_directory"
    /\ \E reply \in Replies :
         sh' = IF reply = <<>> THEN Exit([sh EXCEPT !.unread = TRUE], 1)
               ELSE [sh EXCEPT !.pc = "check_prerequisites",
                               !.consents = IF Consents(reply) THEN @ + 1 ELSE @]
    /\ UNCHANGED ServerVars

\* main: read -p "Is this the correct directory ...? (y/n): " -n 1 -r and its test
AskDirectory ==
    /\ sh.pc = "ask_directory"
    /\ \E reply \in Replies :
         sh' = IF reply = <<>> THEN Exit([sh EXCEPT !.unread = TRUE], 1)
               ELSE IF ~Consents(reply)
               THEN Exit(Say(sh, "Please navigate to the desired directory and run the script again"), 0)
               ELSE [sh EXCEPT !.pc = "check_prerequisites", !.consents = @ + 1]
    /\ UNCHANGED ServerVars

\* check_prerequisites
CheckPrerequisites ==
    /\ sh.pc = "check_prerequisites"
    /\ \E gitInstalled \in BOOLEAN :
         sh' = IF ~gitInstalled
               THEN Exit(Say([sh EXCEPT !.log = Append(@, "command -v git")],
                             "Git is not installed. Please install Git and try again."), 1)
               ELSE [Say([sh EXCEPT !.log = @ \o <<"command -v git", "command -v node">>],
                         "Prerequisites check completed")
                     EXCEPT !.pc = "setup_main_repo"]
    /\ UNCHANGED ServerVars

\* The statuses a command that fails under set -e ends the script with: 1 for
\* mv, mkdir, cd and a redirection, 1 or 128 for a command of git.
FailureStatuses(command) ==
    IF Len(command) >= 3 /\ SubSeq(command, 1, 3) = "git" THEN {1, 128} ELSE {1}

\* setup_main_repo: the directory is backed up when it exists; a new repository
\* is made when MAIN_REPO_URL holds "yourusername", else the url is cloned.
\* The function runs under set -e: each of its commands may fail, and the
\* first that does ends the script with its status, the commands after it
\* not run.  failed is the position of that command, 0 when none fails.
SetupMainRepo ==
    /\ sh.pc = "setup_main_repo"
    /\ \E exists \in BOOLEAN, cloned \in ClonedRepositories :
         LET backup == IF exists THEN <<"mv">> ELSE <<>>
             fresh == includes(sh.mainRepoUrl, "yourusername")
             create == IF fresh
                       THEN <<"mkdir", "cd", "git init", "git add", "git commit">>
                       ELSE <<"git clone", "cd">>
             commands == backup \o create
         IN \E failed \in 0..Len(commands) :
              IF failed = 0
              THEN sh' = [Say([sh EXCEPT !.log = @ \o commands],
                              "Main repository setup completed")
                          EXCEPT !.pc = "merge_all_repositories",
                                 !.remotes = IF fresh THEN {} ELSE cloned.remotes,
                                 !.dirs = IF fresh THEN {} ELSE cloned.dirs]
              ELSE \E status \in FailureStatuses(commands[failed]) :
                     sh' = Exit([sh EXCEPT !.log = @ \o SubSeq(commands, 1, failed)],
                                status)
    /\ UNCHANGED ServerVars

\* merge_all_repositories, one turn of its loop: the entry is read into three
\* fields, merge_repository is called in the test of the if, and on success
\* ((success_count++)) runs; its status is 1 when the count was 0, which under
\* set -e ends the script in a bash that applies set -e to (( )).
MergeNextRepository ==
    /\ sh.pc = "merge_all_repositories"
    /\ sh.i <= Len(sh.repos)
    /\ \E fetchOk \in BOOLEAN, subtreeOk \in BOOLEAN :
         LET f == ReadFields(sh.repos[sh.i])
             r == merge_repository([remotes |-> sh.remotes, dirs |-> sh.dirs],
                      f.repo_url, f.target_dir, f.branch, fetchOk, subtreeOk)
             returned ==
                 [sh EXCEPT !.remotes = r.remotes, !.dirs = r.dirs,
                            !.log = @ \o r.ran,
                            !.calls = Append(@, [repo_url |-> f.repo_url,
                                                 target_dir |-> f.target_dir,
                                                 branch |-> f.branch,
                                                 status |-> r.status,
                                                 path |-> r.path,
                                                 ran |-> r.ran])]
         IN sh' = IF r.status # 0 THEN [returned EXCEPT !.i = @ + 1]
                  ELSE IF sh.success_count = 0 /\ sh.arithErrexit
                  THEN Exit([returned EXCEPT !.success_count = @ + 1], 1)
                  ELSE [returned EXCEPT !.success_count = @ + 1, !.i = @ + 1]
    /\ UNCHANGED ServerVars

\* merge_all_repositories after its loop: the count and the verdict.
MergeSummary ==
    /\ sh.pc = "merge_all_repositories"
    /\ sh.i > Len(sh.repos)
    /\ sh' = [Say(Say(sh, "Merged " \o ToDecimal(sh.success_count) \o " out of "
                          \o ToDecimal(Len(sh.repos)) \o " repositories"),
                  IF sh.success_count = Len(sh.repos)
                  THEN "All repositories merged successfully!"
                  ELSE "Some repositories failed to merge. Check the output above.")
              EXCEPT !.pc = "setup_nx_structure"]
    /\ UNCHANGED ServerVars

\* setup_nx_structure: asks; on y or Y and with npx there it writes nx.json,
\* makes libs and tools, and writes .gitignore when the repository has none (a
\* new repository never has one).  It runs under set -e: the first command
\* that fails ends the script with status 1.
SetupNxStructure ==
    /\ sh.pc = "setup_nx_structure"
    /\ \E reply \in Replies, npx \in BOOLEAN,
          gitignore \in (IF includes(sh.mainRepoUrl, "yourusername")
                         THEN {FALSE} ELSE BOOLEAN) :
         LET commands == <<"cat > nx.json", "mkdir -p libs tools">>
                         \o (IF gitignore THEN <<>> ELSE <<"cat > .gitignore">>)
         IN IF reply = <<>> THEN sh' = Exit([sh EXCEPT !.unread = TRUE], 1)
            ELSE IF ~Consents(reply)
            THEN sh' = [Say(sh, "Skipping Nx setup") EXCEPT !.pc = "post_merge_instructions"]
            ELSE IF ~npx
            THEN sh' = [Say(sh, "npx not available. Skipping Nx setup.")
                        EXCEPT !.pc = "post_merge_instructions"]
            ELSE \E failed \in 0..Len(commands) :
                   sh' = IF failed = 0
                         THEN [Say([sh EXCEPT !.log = @ \o commands],
                                   "Basic Nx structure created")
                               EXCEPT !.pc = "post_merge_instructions"]
                         ELSE Exit([sh EXCEPT !.log = @ \o SubSeq(commands, 1, failed)], 1)
    /\ UNCHANGED ServerVars

\* post_merge_instructions, after which the script ends.
PostMergeInstructions ==
    /\ sh.pc = "post_merge_instructions"
    /\ sh' = Exit(Say(sh, "Your monorepo is ready!"), 0)
    /\ UNCHANGED ServerVars

NextMerge ==
    \/ ParseArguments
    \/ AskProceed
    \/ AskDirectory
    \/ CheckPrerequisites
    \/ SetupMainRepo
    \/ MergeNextRepository
    \/ MergeSummary
    \/ SetupNxStructure
    \/ PostMergeInstructions

SpecMerge == InitMerge /\ [][NextMerge]_vars

-----------------------------------------------------------------------------
(* What the properties below speak of. *)

Answered == resp.kind # "none"
IsCallOf(tool) == req.op = "tools/call" /\ req.name = tool /\ Answered
HasArgs == Len(req.args) = 1
ArgCode == req.args[1].code
ArgType == req.args[1].type
ArgName == req.args[1].name

\* The text of the first block of a tool result.
ToolText == resp.result.content[1].text
\* The response is a payload of exactly one text block.
OneTextBlock ==
    /\ resp.kind = "result"
    /\ Len(resp.result.content) = 1
    /\ resp.result.content[1].type = "text"

StartsWith(s, prefix) == Len(prefix) <= Len(s) /\ SubSeq(s, 1, Len(prefix)) = prefix

\* The first position of needle in s; s must contain it.
FirstIndex(s, needle) ==
    CHOOSE i \in 1..(Len(s) - Len(needle) + 1) :
        /\ SubSeq(s, i, i + Len(needle) - 1) = needle
        /\ \A j \in 1..(i - 1) : SubSeq(s, j, j + Len(needle) - 1) # needle

\* text with every occurrence of token replaced by value, value taken literally.
RECURSIVE PlainSubstitute(_, _, _)
PlainSubstitute(text, token, value) ==
    IF ~includes(text, token) THEN text
    ELSE LET j == FirstIndex(text, token)
         IN SubSeq(text, 1, j - 1) \o value
            \o PlainSubstitute(SubSeq(text, j + Len(token), Len(text)), token, value)

\* The lines of a text.
RECURSIVE SplitLines(_)
SplitLines(text) ==
    IF ~includes(text, "\n") THEN <<text>>
    ELSE LET j == FirstIndex(text, "\n")
         IN <<SubSeq(text, 1, j - 1)>> \o SplitLines(SubSeq(text, j + 1, Len(text)))

SuccessText == OkMark \o " Code follows all realworld patterns!"
IssuesHeader == CrossMark \o " Issues found:"

\* The issue list a validation text shows: its bullet lines without their bullets.
ShownIssues(text) ==
    LET lines == SplitLines(text)
    IN IF lines[1] # IssuesHeader THEN <<>>
       ELSE [k \in 1..(Len(lines) - 1) |-> SubSeq(lines[k + 1], 3, Len(lines[k + 1]))]

Shows(text, message) == \E k \in 1..Len(ShownIssues(text)) : ShownIssues(text)[k] = message

TemplateKeys == {"component", "service", "guard"}
TemplateOf(type) ==
    catalog.code_templates[CHOOSE k \in 1..3 : catalog.code_templates[k].key = type].value

\* A PascalCase name: letters and digits only, the first an upper-case letter.
IsPascalCase(name) ==
    /\ Len(name) > 0
    /\ IsUpper(SubSeq(name, 1, 1))
    /\ \A k \in 1..Len(name) :
         LET c == SubSeq(name, k, k) IN IsUpper(c) \/ IsLower(c) \/ IsDigit(c)

\* The kebab-cased name: lower-cased, a hyphen before each internal upper-case letter.
RECURSIVE KebabFrom(_, _)
KebabFrom(name, k) ==
    IF k > Len(name) THEN ""
    ELSE LET c == SubSeq(name, k, k)
         IN (IF IsUpper(c) /\ k > 1 THEN "-" ELSE "") \o LowerChar(c) \o KebabFrom(name, k + 1)

KebabCase(name) == KebabFrom(name, 1)

-----------------------------------------------------------------------------
(* generate-angular-template *)

\* C1: for a known type and a PascalCase name, the generated text is the
\* template with every {name} replaced by the kebab-cased name and every
\* {Name} replaced by the name itself.
C1_KebabAndPascalSubstituted ==
    (/\ IsCallOf("generate-angular-template") /\ HasArgs
     /\ IsString(ArgType) /\ IsString(ArgName)
     /\ ValueOf(ArgType) \in TemplateKeys
     /\ IsPascalCase(ValueOf(ArgName)))
    => /\ OneTextBlock
       /\ ToolText =
            PlainSubstitute(
              PlainSubstitute(TemplateOf(ValueOf(ArgType)), "{name}", KebabCase(ValueOf(ArgName))),
              "{Name}", ValueOf(ArgName))

\* C2: for every type string that is no key of the templates, the call does
\* not throw and answers one text block that starts with "Template not found".
C2_UnknownTypeAnswersNotFound ==
    (/\ IsCallOf("generate-angular-template") /\ HasArgs
     /\ IsString(ArgType) /\ IsString(ArgName)
     /\ ValueOf(ArgType) \notin TemplateKeys)
    => /\ OneTextBlock
       /\ StartsWith(ToolText, "Template not found")

\* C3: for every name and every known type, every {Name} is replaced by
\* exactly the first character of the name upper-cased followed by the rest
\* of the name, whatever characters the name holds.
C3_PascalFormSubstitutedExactly ==
    (/\ IsCallOf("generate-angular-template") /\ HasArgs
     /\ IsString(ArgType) /\ IsString(ArgName)
     /\ ValueOf(ArgType) \in TemplateKeys)
    => /\ OneTextBlock
       /\ ToolText =
            PlainSubstitute(
              ReplaceNameStep(TemplateOf(ValueOf(ArgType)), ValueOf(ArgName)),
              "{Name}",
              UpperChar(charAt(ValueOf(ArgName), 0)) \o slice(ValueOf(ArgName), 1))

-----------------------------------------------------------------------------
(* validate-angular-code *)

\* A validate-angular-code call of the given type on a code string, answered.
ValidatedAs(type) ==
    /\ IsCallOf("validate-angular-code") /\ HasArgs
    /\ IsString(ArgCode)
    /\ ArgType = Str(type)

\* C4: for type "component", "Component must be standalone" is in the issue
\* list exactly when the code lacks "standalone: true", and "Use signals for
\* reactive state" exactly when it lacks "signal("; "class X {}" gets both,
\* and a code with both texts and no "class=" gets the success text.
C4_ComponentStandaloneAndSignals ==
    ValidatedAs("component") =>
      LET code == ValueOf(ArgCode) IN
        /\ OneTextBlock
        /\ Shows(ToolText, "Component must be standalone")
             <=> ~includes(code, "standalone: true")
        /\ Shows(ToolText, "Use signals for reactive state")
             <=> ~includes(code, "signal(")
        /\ code = "class X {}"
             => /\ Shows(ToolText, "Component must be standalone")
                /\ Shows(ToolText, "Use signals for reactive state")
        /\ (includes(code, "standalone: true") /\ includes(code, "signal(")
            /\ ~includes(code, "class="))
             => ToolText = SuccessText

\* C4 happens: the spec's example with both texts was validated as a component.
C4_Witness ==
    /\ ValidatedAs("component")
    /\ ValueOf(ArgCode) = "@Component({standalone: true}) class X { x = signal(1); }"
    /\ ToolText = SuccessText

\* The value of the class= attribute that starts at position i of code: the
\* text between its quotes, or up to the next blank or ">" when unquoted.
ClassAttributeValue(code, i) ==
    LET from == i + Len("class=")
        q == charAt(code, from - 1)
        quoted == q = "\"" \/ q = "'"
        start == IF quoted THEN from + 1 ELSE from
        ends == {j \in start..Len(code) :
                   IF quoted THEN SubSeq(code, j, j) = q
                   ELSE SubSeq(code, j, j) \in {" ", ">", "\n"}}
        stop == IF ends = {} THEN Len(code) + 1
                ELSE CHOOSE j \in ends : \A k \in ends : j <= k
    IN SubSeq(code, start, stop - 1)

\* code has a class= attribute whose own value holds none of the three words.
HasCustomClassAttribute(code) ==
    \E i \in 1..(Len(code) - Len("class=") + 1) :
        /\ SubSeq(code, i, i + Len("class=") - 1) = "class="
        /\ LET value == ClassAttributeValue(code, i)
           IN /\ ~includes(value, "container-fluid")
              /\ ~includes(value, "btn")
              /\ ~includes(value, "card")

\* C5: for type "component", "Use Bootstrap classes instead of custom CSS"
\* is reported for every code with a class= attribute that does not itself
\* hold container-fluid, btn or card, wherever else those words stand.
C5_CustomClassAlwaysReported ==
    (ValidatedAs("component") /\ HasCustomClassAttribute(ValueOf(ArgCode)))
    => /\ OneTextBlock
       /\ Shows(ToolText, "Use Bootstrap classes instead of custom CSS")

\* C6: for type "service", "Service must use providedIn: root" is reported
\* exactly when the code lacks providedIn: 'root', and "Use inject() function
\* for dependency injection" exactly when it lacks "inject("; "class X {}"
\* gets both.
C6_ServiceProvidedInAndInject ==
    ValidatedAs("service") =>
      LET code == ValueOf(ArgCode) IN
        /\ OneTextBlock
        /\ Shows(ToolText, "Service must use providedIn: root")
             <=> ~includes(code, "providedIn: 'root'")
        /\ Shows(ToolText, "Use inject() function for dependency injection")
             <=> ~includes(code, "inject(")
        /\ code = "class X {}"
             => ShownIssues(ToolText) =
                  <<"Service must use providedIn: root",
                    "Use inject() function for dependency injection">>

\* C6 happens: "class X {}" was validated as a service and got both issues.
C6_Witness ==
    /\ ValidatedAs("service") /\ ValueOf(ArgCode) = "class X {}"
    /\ Len(ShownIssues(ToolText)) = 2

\* C7: for every type other than "component" and "service", in the schema's
\* enum or not, every code string gets the success text and never an error.
C7_OtherTypesAlwaysValid ==
    (/\ IsCallOf("validate-angular-code") /\ HasArgs
     /\ IsString(ArgCode) /\ IsString(ArgType)
     /\ ValueOf(ArgType) \notin {"component", "service"})
    => /\ OneTextBlock
       /\ ToolText = SuccessText

\* C7 happens: a code that a component or service check would flag was
\* validated under a type outside the enum, and under "guard".
C7_Witness ==
    /\ IsCallOf("validate-angular-code") /\ HasArgs
    /\ ArgCode = Str("class X {}")
    /\ ArgType \in {Str("pipe"), Str("guard")}
    /\ resp.kind = "result"

\* The messages of the checks that code triggers under type, in the order
\* the checks are declared.
TriggeredChecks(code, type) ==
    LET checks ==
          IF type = Str("component")
          THEN << [message |-> "Component must be standalone",
                   triggered |-> ~includes(code, "standalone: true")],
                  [message |-> "Use signals for reactive state",
                   triggered |-> ~includes(code, "signal(")],
                  [message |-> "Use Bootstrap classes instead of custom CSS",
                   triggered |-> /\ includes(code, "class=")
                                 /\ \A w \in {"container-fluid", "btn", "card"} :
                                      ~includes(code, w)] >>
          ELSE IF type = Str("service")
          THEN << [message |-> "Service must use providedIn: root",
                   triggered |-> ~includes(code, "providedIn: 'root'")],
                  [message |-> "Use inject() function for dependency injection",
                   triggered |-> ~includes(code, "inject(")] >>
          ELSE <<>>
        hit(c) == c.triggered
        hits == SelectSeq(checks, hit)
    IN [k \in 1..Len(hits) |-> hits[k].message]

\* C8: the answer of validate-angular-code is exactly one text block; it is
\* the success text exactly when no check triggered, and otherwise the
\* issues header followed by one bullet line per triggered check, in the
\* order the checks are declared, no message twice.
C8_OneBlockSuccessOrOrderedBullets ==
    (IsCallOf("validate-angular-code") /\ HasArgs /\ IsString(ArgCode)) =>
      LET expected == TriggeredChecks(ValueOf(ArgCode), ArgType)
          lines == SplitLines(ToolText)
      IN /\ OneTextBlock
         /\ (ToolText = SuccessText) <=> (expected = <<>>)
         /\ expected # <<>> =>
              /\ Len(lines) = 1 + Len(expected)
              /\ lines[1] = IssuesHeader
              /\ \A k \in 1..Len(expected) : lines[k + 1] = "- " \o expected[k]
              /\ \A j, k \in 2..Len(lines) : j # k => lines[j] # lines[k]

\* C8 happens: a component that triggers all three checks was answered with
\* the header and three bullets.
C8_Witness ==
    /\ ValidatedAs("component")
    /\ Len(TriggeredChecks(ValueOf(ArgCode), ArgType)) = 3
    /\ Len(SplitLines(ToolText)) = 4

-----------------------------------------------------------------------------
(* Lookup misses *)

\* C9: for a uri that is none of the three known ones, readResource throws:
\* no contents are returned, and the message of the error holds the uri.
C9_UnknownUriThrows ==
    (req.op = "resources/read" /\ Answered /\ req.uri \notin KnownUris)
    => /\ resp.kind = "error"
       /\ resp.result = <<>>
       /\ includes(resp.error.message, req.uri)

\* C9 happens: an unknown uri that extends a known one was read and refused.
C9_Witness ==
    /\ req.op = "resources/read" /\ Answered
    /\ req.uri = "patterns://angular/rules/"
    /\ resp.kind = "error"

\* C10: for a tool name that is neither of the two known ones, callTool
\* throws whatever the arguments are, absent ones included, and the error has
\* the shape of the unknown-resource error: an Error whose message holds the
\* requested name.
C10_UnknownToolThrows ==
    (req.op = "tools/call" /\ Answered /\ req.name \notin KnownTools)
    => /\ resp.kind = "error"
       /\ resp.result = <<>>
       /\ resp.error.name = ReadResourceHandler("").error.name
       /\ includes(resp.error.message, req.name)

\* C10 happens: an unknown tool was called without arguments and refused.
C10_Witness ==
    /\ req.op = "tools/call" /\ Answered
    /\ req.name = "unknown-tool"
    /\ resp.kind = "error"
    /\ req.args = <<>>

-----------------------------------------------------------------------------
(* Resources and tools: what is listed and what is served. *)

\* What listResources and listTools return.
ListedResources == ListResourcesHandler.value.resources
ListedTools == ListToolsHandler.value.tools
ListedUris == {ListedResources[k].uri : k \in 1..Len(ListedResources)}
ListedToolNames == {ListedTools[k].name : k \in 1..Len(ListedTools)}

\* The response is the error of a lookup that found nothing.
IsLookupMiss(prefix) ==
    /\ resp.kind = "error"
    /\ resp.error.name = "Error"
    /\ StartsWith(resp.error.message, prefix)

\* C11: for every uri that listResources returns, readResource succeeds with
\* exactly one content entry, which echoes the requested uri, has a text that
\* is not empty, and has the mimeType listResources declares for that uri.
C11_ListedUriReadsOneMatchingEntry ==
    (req.op = "resources/read" /\ Answered /\ req.uri \in ListedUris)
    => /\ resp.kind = "result"
       /\ Len(resp.result.contents) = 1
       /\ resp.result.contents[1].uri = req.uri
       /\ Len(resp.result.contents[1].text) > 0
       /\ \A k \in 1..Len(ListedResources) :
            ListedResources[k].uri = req.uri
            => resp.result.contents[1].mimeType = ListedResources[k].mimeType

\* C11 happens: the templates, the one resource listed as text/plain, were read.
C11_Witness ==
    /\ req.op = "resources/read" /\ Answered
    /\ req.uri = "patterns://angular/templates"
    /\ req.uri \in ListedUris
    /\ resp.kind = "result"
    /\ resp.result.contents[1].mimeType = "text/plain"

\* C12: the uris listResources returns are pairwise distinct and are exactly
\* the uris for which readResource does not throw the not-found error; the
\* names listTools returns are pairwise distinct and are exactly the names for
\* which callTool does not throw the not-found error.
C12_ListedIsExactlyDispatched ==
    /\ \A j, k \in 1..Len(ListedResources) :
         ListedResources[j].uri = ListedResources[k].uri => j = k
    /\ \A j, k \in 1..Len(ListedTools) :
         ListedTools[j].name = ListedTools[k].name => j = k
    /\ (req.op = "resources/read" /\ Answered)
       => (req.uri \in ListedUris <=> ~IsLookupMiss("Resource not found: "))
    /\ (req.op = "tools/call" /\ Answered)
       => (req.name \in ListedToolNames <=> ~IsLookupMiss("Tool not found: "))

\* C12 happens: a uri that only continues a listed one was read and missed.
C12_Witness ==
    /\ req.op = "resources/read" /\ Answered
    /\ req.uri = "patterns://angular/rules/"
    /\ req.uri \notin ListedUris
    /\ IsLookupMiss("Resource not found: ")

-----------------------------------------------------------------------------
(* The error taxonomy. *)

\* C17: the only requests that throw are the two lookup misses: a readResource
\* of a known uri and a callTool of a known tool return a payload and never
\* throw, whatever the arguments, absent arguments, a missing code and a
\* missing name included.
C17_OnlyLookupMissesThrow ==
    Answered
    => /\ (req.op = "resources/read" /\ req.uri \in KnownUris) => resp.kind = "result"
       /\ (req.op = "tools/call" /\ req.name \in KnownTools) => resp.kind = "result"
       /\ resp.kind = "error"
          => \/ req.op = "resources/read" /\ IsLookupMiss("Resource not found: ")
             \/ req.op = "tools/call" /\ IsLookupMiss("Tool not found: ")

-----------------------------------------------------------------------------
(* The templates resource. *)

\* The pieces of a text between the occurrences of a separator.
RECURSIVE SplitOn(_, _)
SplitOn(text, sep) ==
    IF ~includes(text, sep) THEN <<text>>
    ELSE LET j == FirstIndex(text, sep)
         IN <<SubSeq(text, 1, j - 1)>>
            \o SplitOn(SubSeq(text, j + Len(sep), Len(text)), sep)

\* The label lines and the template texts of index.ts, in the order of the source.
TemplateLabels == <<"// COMPONENT TEMPLATE", "// SERVICE TEMPLATE", "// GUARD TEMPLATE">>
TemplateTexts == <<ComponentTemplate, ServiceTemplate, GuardTemplate>>

\* C19: readResource of the templates uri returns one labelled block for each
\* code template, every one and none twice, in the order component, service,
\* guard; adjacent blocks are separated by a blank line; each block is a label
\* line that names the entry, followed by the template text with its
\* placeholders not substituted.
C19_TemplatesAreLabelledBlocksInOrder ==
    (req.op = "resources/read" /\ Answered /\ req.uri = "patterns://angular/templates")
    => /\ resp.kind = "result"
       /\ LET blocks == SplitOn(resp.result.contents[1].text, "\n\n")
          IN /\ Len(blocks) = Len(TemplateTexts)
             /\ \A k \in 1..Len(blocks) :
                  LET j == FirstIndex(blocks[k], "\n")
                      label == SubSeq(blocks[k], 1, j - 1)
                      body == SubSeq(blocks[k], j + 1, Len(blocks[k]))
                  IN /\ label = TemplateLabels[k]
                     /\ body = TemplateTexts[k]
                     /\ includes(body, "{Name}") \/ includes(body, "{name}")

\* C19 happens: the templates were read and the text has the three labels.
C19_Witness ==
    /\ req.op = "resources/read" /\ Answered
    /\ req.uri = "patterns://angular/templates"
    /\ resp.kind = "result"
    /\ \A k \in 1..3 : includes(resp.result.contents[1].text, TemplateLabels[k])

-----------------------------------------------------------------------------
(* Requests that follow one another. *)

\* Requests were served before the last one, one of them a failed one.
AfterEarlierRequests == kept # NoKept /\ failedSince
\* The request just served is the kept one, sent again.
SentAgain == Answered /\ kept # NoKept /\ kept.req = req

\* C13: after any sequence of earlier requests, successful or failed,
\* listResources returns exactly 3 descriptors, with the uris
\* patterns://angular/rules, patterns://angular/templates and
\* patterns://angular/validation.
C13_ListResourcesAlwaysTheThree ==
    (req.op = "resources/list" /\ Answered)
    => /\ resp.kind = "result"
       /\ [k \in 1..Len(resp.result.resources) |-> resp.result.resources[k].uri]
          = <<"patterns://angular/rules", "patterns://angular/templates",
              "patterns://angular/validation">>

\* C13 happens: the resources were listed after earlier requests, a failed one
\* among them.
C13_Witness ==
    /\ req.op = "resources/list" /\ Answered
    /\ AfterEarlierRequests
    /\ Len(resp.result.resources) = 3

\* C14: after any sequence of earlier requests, listTools returns exactly 2
\* descriptors, validate-angular-code and generate-angular-template, each with
\* its declared input schema.
C14_ListToolsAlwaysTheTwo ==
    (req.op = "tools/list" /\ Answered)
    => /\ resp.kind = "result"
       /\ Len(resp.result.tools) = 2
       /\ resp.result.tools[1].name = "validate-angular-code"
       /\ resp.result.tools[1].inputSchema =
            [type |-> "object",
             properties |-> << [name |-> "code", type |-> "string", enum |-> <<>>,
                              description |-> "Angular code to validate"],
                               [name |-> "type", type |-> "string",
                                enum |-> <<"component", "service", "guard", "routing">>,
                              description |-> "Type of Angular code"] >>,
             required |-> <<"code", "type">>]
       /\ resp.result.tools[2].name = "generate-angular-template"
       /\ resp.result.tools[2].inputSchema =
            [type |-> "object",
             properties |-> << [name |-> "type", type |-> "string",
                                enum |-> <<"component", "service", "guard">>,
                              description |-> "Type of template to generate"],
                               [name |-> "name", type |-> "string", enum |-> <<>>,
                              description |-> "Name for the generated code"] >>,
             required |-> <<"type", "name">>]

\* C14 happens: the tools were listed after earlier requests, a failed one
\* among them.
C14_Witness ==
    /\ req.op = "tools/list" /\ Answered
    /\ AfterEarlierRequests
    /\ Len(resp.result.tools) = 2

\* C15: listResources, listTools and readResource, called twice with the same
\* input, give the same output, whatever requests are served in between, tool
\* calls and failing requests included.
C15_ReadingTwiceGivesTheSame ==
    (SentAgain /\ req.op \in {"resources/list", "tools/list", "resources/read"})
    => resp = kept.resp

\* C15 happens: the templates were read, a request failed, and the templates
\* were read again.
C15_Witness ==
    /\ SentAgain /\ failedSince
    /\ req = ReadResourceRequest("patterns://angular/templates")
    /\ resp.kind = "result"

\* C16: a failed request does not end the dispatcher and does not affect the
\* requests after it: the server goes on serving, the next waiting request is
\* due for its handler, and a request served after a failure gets the result
\* it got before the failing request was sent.
C16_FailureLeavesNoTrace ==
    /\ resp.kind = "error" => phase = "serving"
    /\ (resp.kind = "error" /\ inbox # <<>>) => Pending(Head(inbox).op)
    /\ (SentAgain /\ failedSince) => resp = kept.resp

\* C16 happens: a tool was called, a request failed, and the same call was
\* served again.
C16_Witness ==
    /\ SentAgain /\ failedSince
    /\ req.op = "tools/call"
    /\ req.name = "validate-angular-code"
    /\ resp.kind = "result"

\* C18: no request changes the catalog, so the result of callTool depends on
\* the name and the arguments only, not on the requests served before.
C18_CatalogNeverChanges ==
    /\ catalog = ANGULAR_PATTERNS
    /\ (SentAgain /\ req.op = "tools/call") => resp = kept.resp

\* C18 happens: a template was generated twice, with other requests in between.
C18_Witness ==
    /\ SentAgain /\ failedSince
    /\ req.op = "tools/call"
    /\ req.name = "generate-angular-template"
    /\ resp.kind = "result"
    /\ catalog = ANGULAR_PATTERNS

\* A step that serves nothing, a step in which a request arrives and nothing is
\* served, or a step that takes the oldest waiting request and gives it its one
\* response.
ServesOneToCompletion ==
    \/ UNCHANGED <<inbox, req, resp>>
    \/ /\ Len(inbox') = Len(inbox) + 1
       /\ SubSeq(inbox', 1, Len(inbox)) = inbox
       /\ UNCHANGED <<req, resp>>
    \/ /\ inbox # <<>>
       /\ inbox' = Tail(inbox)
       /\ req' = Head(inbox)
       /\ resp'.kind \in {"result", "error"}

\* C20: requests are served one at a time to completion: every request, the
\* failing ones too, gets exactly one response before the next request is
\* taken, in the step that takes it; no handler leaves a request half served.
C20_OneResponseBeforeTheNext == [][ServesOneToCompletion]_vars

\* C20 happens: a request failed and was answered while another one waited.
C20_Witness ==
    /\ Answered
    /\ resp.kind = "error"
    /\ inbox # <<>>

-----------------------------------------------------------------------------
(* Startup. *)

\* C21: when connecting the transport fails at startup the process reports the
\* error and exits with status 1; the transport is connected exactly once, at
\* the start, and no request arrives or is served before the connect completed.
C21_StartupFailureExitsOne ==
    /\ phase = "starting"
       => proc = NotConnected /\ inbox = <<>> /\ ~Answered
    /\ phase = "serving"
       => proc.connects = 1 /\ proc.exitStatus = <<>>
    /\ phase = "exited"
       => /\ proc.connects = 1
          /\ proc.exitStatus = <<1>>
          /\ Len(proc.stderr) = 1
          /\ StartsWith(proc.stderr[1], "Server error:")
          /\ inbox = <<>> /\ ~Answered
    /\ (Answered \/ inbox # <<>>) => phase = "serving"

\* C21 happens: the connect failed and the process has exited.
C21_Witness ==
    /\ phase = "exited"
    /\ proc.connects = 1
    /\ proc.exitStatus # <<>>

-----------------------------------------------------------------------------
(* What the tools promise and what they check. *)

\* The code imports from libs/features into a file of libs/core, which the
\* dependency boundaries of the catalog forbid.
CrossesBoundary(code) ==
    /\ includes(code, "libs/core/")
    /\ includes(code, "from 'libs/features/")

\* C22: the server checks dependency boundaries: for code that imports across
\* a boundary the catalog forbids, the validation tool reports a boundary
\* violation.
C22_BoundaryViolationReported ==
    (IsCallOf("validate-angular-code") /\ HasArgs /\ IsString(ArgCode)
       /\ IsString(ArgType) /\ CrossesBoundary(ValueOf(ArgCode)))
    => /\ OneTextBlock
       /\ StartsWith(ToolText, IssuesHeader)
       /\ \/ includes(toLowerCase(ToolText), "boundar")
          \/ includes(toLowerCase(ToolText), "import")

\* C23: generated code passes the server's own validator: for each type of
\* component, service and guard and every name, the text generate-angular-template
\* returns, handed as code to validate-angular-code with the same type, gets
\* the success text.
C23_GeneratedCodeValidates ==
    (IsCallOf("generate-angular-template") /\ HasArgs /\ IsString(ArgName)
       /\ ArgType \in {Str("component"), Str("service"), Str("guard")})
    => /\ OneTextBlock
       /\ CallToolHandler("validate-angular-code",
              <<[code |-> Str(ToolText), type |-> ArgType, name |-> Undefined]>>)
          = Return(TextContent(SuccessText))

\* C23 happens: a service was generated for a name that brings parts of the
\* template into the text.
C23_Witness ==
    /\ IsCallOf("generate-angular-template") /\ HasArgs
    /\ ArgType = Str("service")
    /\ ArgName = Str("x$'")
    /\ OneTextBlock
    /\ includes(ToolText, "providedIn")

\* The types the input schema of generate-angular-template advertises.
AdvertisedGenerateTypes ==
    LET schema == ListedTools[CHOOSE k \in 1..Len(ListedTools) :
                     ListedTools[k].name = "generate-angular-template"].inputSchema
        property == schema.properties[CHOOSE k \in 1..Len(schema.properties) :
                     schema.properties[k].name = "type"]
    IN {property.enum[k] : k \in 1..Len(property.enum)}

\* C24: the types the schema of generate-angular-template advertises are
\* exactly the keys of the code templates: a call with an advertised type
\* never returns the "Template not found" text, and every template is reached
\* through an advertised type.
C24_AdvertisedTypesAreTemplateKeys ==
    /\ AdvertisedGenerateTypes
       = {catalog.code_templates[k].key : k \in 1..Len(catalog.code_templates)}
    /\ (IsCallOf("generate-angular-template") /\ HasArgs /\ IsString(ArgType)
          /\ ValueOf(ArgType) \in AdvertisedGenerateTypes /\ resp.kind = "result")
       => ~StartsWith(ToolText, "Template not found")
    /\ (IsCallOf("generate-angular-template") /\ HasArgs /\ IsString(ArgType)
          /\ IsString(ArgName) /\ resp.kind = "result"
          /\ ~StartsWith(ToolText, "Template not found"))
       => ValueOf(ArgType) \in AdvertisedGenerateTypes

\* C24 happens: the guard template was generated through its advertised type.
C24_Witness ==
    /\ IsCallOf("generate-angular-template") /\ HasArgs
    /\ ArgType = Str("guard")
    /\ ArgType[1] \in AdvertisedGenerateTypes
    /\ ArgName = Str("UserList")
    /\ OneTextBlock
    /\ includes(ToolText, "Guard: CanActivateFn")

\* C25: the providedIn check of a service depends on the quote: code with
\* providedIn: "root" in double quotes gets "Service must use providedIn: root",
\* code with providedIn: 'root' in single quotes does not.
C25_ProvidedInQuoteSensitive ==
    ValidatedAs("service") =>
      LET code == ValueOf(ArgCode) IN
        /\ OneTextBlock
        /\ (includes(code, "providedIn: \"root\"") /\ ~includes(code, "providedIn: 'root'"))
           => Shows(ToolText, "Service must use providedIn: root")
        /\ includes(code, "providedIn: 'root'")
           => ~Shows(ToolText, "Service must use providedIn: root")

\* C25 happens: a service with root in double quotes and an inject( call was
\* validated and the providedIn issue is the only one.
C25_Witness ==
    /\ ValidatedAs("service")
    /\ includes(ValueOf(ArgCode), "providedIn: \"root\"")
    /\ includes(ValueOf(ArgCode), "inject(")
    /\ ShownIssues(ToolText) = <<"Service must use providedIn: root">>

-----------------------------------------------------------------------------
(* The issue list of one validation call. *)

ComponentMessages ==
    {"Component must be standalone", "Use signals for reactive state",
     "Use Bootstrap classes instead of custom CSS"}
ServiceMessages ==
    {"Service must use providedIn: root", "Use inject() function for dependency injection"}

\* The issues the response shows are issues of the code of this very call, each
\* shown once.
OnlyOwnIssues ==
    LET shown == ShownIssues(ToolText)
        own == TriggeredChecks(ValueOf(ArgCode), ArgType)
    IN /\ \A k \in 1..Len(shown) : \E j \in 1..Len(own) : shown[k] = own[j]
       /\ \A j, k \in 1..Len(shown) : shown[j] = shown[k] => j = k

\* C30: the checks of validateAngularCode are exclusive per type: a component
\* gets at most 3 messages and never a service message, a service gets at most
\* 2 messages and never a component message; and the list is a fresh one on
\* every call: the issues of one call never show up in the result of a later call.
C30_ChecksExclusiveAndListFresh ==
    /\ ValidatedAs("component")
       => /\ OneTextBlock
          /\ Len(ShownIssues(ToolText)) <= 3
          /\ \A k \in 1..Len(ShownIssues(ToolText)) :
               ShownIssues(ToolText)[k] \in ComponentMessages
          /\ OnlyOwnIssues
    /\ ValidatedAs("service")
       => /\ OneTextBlock
          /\ Len(ShownIssues(ToolText)) <= 2
          /\ \A k \in 1..Len(ShownIssues(ToolText)) :
               ShownIssues(ToolText)[k] \in ServiceMessages
          /\ OnlyOwnIssues

\* C30 happens: a component got its three issues, and the service validated
\* after it got none.
C30_Witness ==
    /\ ValidatedAs("service")
    /\ inbox = <<>>
    /\ kept # NoKept
    /\ kept.req # req
    /\ kept.req.args[1].type = Str("component")
    /\ Len(ShownIssues(kept.resp.result.content[1].text)) = 3
    /\ ToolText = SuccessText

-----------------------------------------------------------------------------
(* merge-repos.sh: what the script does with REPOS and with the answers. *)

Said(line) == \E k \in 1..Len(sh.out) : sh.out[k] = line

\* The number of calls of merge_repository that returned success.
SuccessfulCalls == Cardinality({k \in 1..Len(sh.calls) : sh.calls[k].status = 0})

\* The loop of merge_all_repositories has been entered and left, by its end or
\* by the end of the script.
LeftTheLoop ==
    \/ sh.pc \in {"setup_nx_structure", "post_merge_instructions"}
    \/ sh.pc = "exited" /\ Len(sh.calls) > 0

\* A command of setup_nx_structure failed and ended the script: the last
\* command run is one of its own and its success line was never printed.
NxCommandFailed ==
    /\ sh.pc = "exited" /\ Len(sh.log) > 0
    /\ sh.log[Len(sh.log)] \in {"cat > nx.json", "mkdir -p libs tools", "cat > .gitignore"}
    /\ ~Said("Basic Nx structure created")

\* C26: merge_all_repositories goes through every entry of REPOS in order,
\* whether entries fail or succeed, then prints "Merged k out of n
\* repositories" with n the number of entries and k the number of successful
\* calls of merge_repository; the script then goes on with setup_nx_structure
\* and post_merge_instructions.
C26_EveryEntryThenTheCount ==
    /\ LeftTheLoop
       => /\ Len(sh.calls) = Len(sh.repos)
          /\ Said("Merged " \o ToDecimal(SuccessfulCalls) \o " out of "
                  \o ToDecimal(Len(sh.repos)) \o " repositories")
    /\ (sh.pc = "exited" /\ Len(sh.calls) > 0 /\ ~sh.unread /\ ~NxCommandFailed)
       => Said("Your monorepo is ready!")

\* The three fields of an entry written as repo_url:target_directory:branch:
\* the branch after the last colon, the directory before it, the url before that.
DocumentedFields(entry) ==
    LET b == LastPos(entry, ":")
        front == SubSeq(entry, 1, b - 1)
        d == LastPos(front, ":")
    IN [repo_url |-> SubSeq(front, 1, d - 1),
        target_dir |-> SubSeq(front, d + 1, Len(front)),
        branch |-> SubSeq(entry, b + 1, Len(entry))]

\* C27: every entry of REPOS written as repo_url:target_directory:branch, like
\* the five configured ones with their https:// urls, is split so that
\* merge_repository gets the whole url, the target directory and the branch.
C27_EntrySplitIntoItsThreeFields ==
    \A k \in 1..Len(sh.calls) :
        /\ sh.calls[k].repo_url = DocumentedFields(sh.repos[k]).repo_url
        /\ sh.calls[k].target_dir = DocumentedFields(sh.repos[k]).target_dir
        /\ sh.calls[k].branch = DocumentedFields(sh.repos[k]).branch

\* A command of the list starts with the text.
RanCommand(ran, text) == \E j \in 1..Len(ran) : StartsWith(ran[j], text)

\* C28: merge_repository leaves no remote behind: on each return path after
\* the remote was added (fetch failed, target directory exists, subtree add
\* failed, merged) the remote is removed before the return; the status is not
\* 0 exactly when the fetch or the subtree add failed, and an existing target
\* directory is skipped without a subtree add and counts as success.
C28_NoRemoteLeftBehind ==
    \A k \in 1..Len(sh.calls) :
        LET c == sh.calls[k]
            remote_name == RemoteName(c.repo_url)
        IN /\ remote_name \notin sh.remotes
           /\ RanCommand(c.ran, "git remote add " \o remote_name)
           /\ c.ran[Len(c.ran)] = "git remote remove " \o remote_name
           /\ c.status # 0 <=> c.path \in {"fetch_failed", "subtree_failed"}
           /\ c.path = "skipped"
              => c.status = 0 /\ ~RanCommand(c.ran, "git subtree add")
           /\ c.path \in {"merged", "subtree_failed"} <=> RanCommand(c.ran, "git subtree add")

\* C28 happens: the target directory was there already, and the call before it
\* failed at its fetch.
C28_Witness ==
    /\ Len(sh.calls) = 2
    /\ sh.calls[1].path = "fetch_failed"
    /\ sh.calls[2].path = "skipped"
    /\ sh.calls[2].status = 0
    /\ RemoteName(sh.calls[2].repo_url) \notin sh.remotes

WantsHelp == sh.argv1 \in {"-h", "--help"}

\* With -h or --help the script prints the help and exits 0 without calling main.
HelpOnly ==
    (WantsHelp /\ sh.pc = "exited")
    => /\ sh.exit = <<0>>
       /\ sh.out = <<"GitHub Repository Merger Script">>
       /\ sh.log = <<>> /\ sh.calls = <<>> /\ sh.consents = 0

\* C29 as stated: nothing is changed without consent: unless the user answers
\* y or Y to both prompts of main the script exits with status 0 before any
\* prerequisite check, directory creation or move, or git command; with -h or
\* --help it prints the help and exits 0 without calling main.
C29_WithoutConsentExitsZero ==
    /\ (~WantsHelp /\ sh.consents < 2)
       => /\ sh.log = <<>> /\ sh.calls = <<>>
          /\ sh.pc = "exited" => sh.exit = <<0>>
    /\ HelpOnly

\* C29 amended: unless the user answers y or Y to both prompts of main the
\* script exits before any prerequisite check, directory creation or move, or
\* git command, with status 0 after an answer that is not y or Y and with
\* status 1 when a prompt cannot be read because the input has ended; with -h
\* or --help it prints the help and exits 0 without calling main.
C29_WithoutConsentNothingRuns ==
    /\ (~WantsHelp /\ sh.consents < 2)
       => /\ sh.log = <<>> /\ sh.calls = <<>>
          /\ sh.pc = "exited" => sh.exit = IF sh.unread THEN <<1>> ELSE <<0>>
    /\ HelpOnly

\* C29 happens: the user agreed to proceed, did not agree to the directory, and
\* the script has exited.
C29_Witness ==
    /\ ~WantsHelp
    /\ sh.pc = "exited"
    /\ sh.consents = 1
    /\ ~sh.unread
    /\ sh.exit = <<0>>
    /\ sh.log = <<>>

====
